---- MODULE Spec2Model ----
(***************************************************************************)
(* Model of src/index.ts of ufc-cal: createICS (the feed assembler) and     *)
(* formatEventForCalendar (the calendar entry mapper with its description  *)
(* synthesizer).                                                           *)
(*                                                                         *)
(* Strings whose characters the code inspects (event.name, event.date,     *)
(* event.prelimsTime, event.earlyPrelimsTime) are sequences of one         *)
(* character strings.  A description is the sequence of the pieces the     *)
(* code concatenates, so "+=" is \o.  A JavaScript number is a record      *)
(* [nan, num, den]: NaN, or the rational num/den in lowest terms.          *)
(***************************************************************************)
EXTENDS Integers, Sequences, FiniteSets, TLC

VARIABLES
    pc,          \* createICS: position in the function body
    events,      \* createICS: const events (line 13)
    exitCode,    \* process.exitCode (0 while unset)
    files,       \* the working directory: file name -> content, NoFile if none
    serialized,  \* the entry lists handed to createEvents, in call order
    trace,       \* the steps createICS has taken with their outcomes
    now,         \* the wall clock, epoch milliseconds
    ev,          \* formatEventForCalendar: parameter event
    cal,         \* formatEventForCalendar: parameter calName
    tz,          \* the process's local UTC offset, minutes
    out          \* formatEventForCalendar: the values returned so far

vars == <<pc, events, exitCode, files, serialized, trace, now, ev, cal, tz, out>>

-----------------------------------------------------------------------------
(* Bounds *)

MaxEvents == 2      \* longest list the acquisition returns
MaxTicks == 2       \* clock steps in one run
MaxCalls == 2       \* calls of formatEventForCalendar on one event

-----------------------------------------------------------------------------
(* JavaScript values *)

Undefined == <<"undefined">>

NaN == [nan |-> TRUE, num |-> 0, den |-> 1]

Num(n) == [nan |-> FALSE, num |-> n, den |-> 1]

RECURSIVE Gcd(_, _)
Gcd(a, b) == IF b = 0 THEN a ELSE Gcd(b, a % b)

Abs(n) == IF n < 0 THEN -n ELSE n

\* a * k for an integer literal k
NumTimes(a, k) == IF a.nan THEN NaN ELSE [a EXCEPT !.num = a.num * k]

\* a - b, both integers or NaN
NumMinus(a, b) == IF a.nan \/ b.nan THEN NaN ELSE Num(a.num - b.num)

\* a / k for an integer literal k > 0: the exact quotient, not rounded
NumDiv(a, k) ==
    IF a.nan THEN NaN
    ELSE LET g == Gcd(Abs(a.num), k)
         IN  [nan |-> FALSE, num |-> a.num \div g, den |-> k \div g]

\* a > 0; false for NaN
NumPositive(a) == ~a.nan /\ a.num > 0

\* `${a}` for a number: an integer prints its digits; a fraction is kept
\* as numerator/denominator
NumToString(a) ==
    IF a.nan THEN "NaN"
    ELSE IF a.den = 1 THEN ToString(a.num)
    ELSE ToString(a.num) \o "/" \o ToString(a.den)

Digits == {"0", "1", "2", "3", "4", "5", "6", "7", "8", "9"}

IsDigit(c) == c \in Digits

\* \s of a regular expression, and the white space parseInt skips
IsSpace(c) == c \in {" ", "\t", "\n", "\r"}

DigitVal(c) ==
    CASE c = "0" -> 0 [] c = "1" -> 1 [] c = "2" -> 2 [] c = "3" -> 3
      [] c = "4" -> 4 [] c = "5" -> 5 [] c = "6" -> 6 [] c = "7" -> 7
      [] c = "8" -> 8 [] c = "9" -> 9

RECURSIVE SkipSpace(_, _)
SkipSpace(s, i) ==
    IF i <= Len(s) /\ IsSpace(s[i]) THEN SkipSpace(s, i + 1) ELSE i

\* the value of the longest run of digits of s from position i on, with
\* acc the value read so far and any whether a digit was read
RECURSIVE ParseDigits(_, _, _, _)
ParseDigits(s, i, acc, any) ==
    IF i <= Len(s) /\ IsDigit(s[i])
    THEN ParseDigits(s, i + 1, acc * 10 + DigitVal(s[i]), TRUE)
    ELSE IF any THEN Num(acc) ELSE NaN

\* parseInt(s): leading white space, an optional sign, then decimal digits
\* up to the first other character; NaN if there is no digit
ParseInt(s) ==
    IF s = Undefined THEN NaN
    ELSE LET i == SkipSpace(s, 1)
             signed == i <= Len(s) /\ s[i] \in {"+", "-"}
             j == IF signed THEN i + 1 ELSE i
             v == ParseDigits(s, j, 0, FALSE)
         IN  IF signed /\ s[i] = "-" THEN NumTimes(v, -1) ELSE v

\* a string used as a condition: undefined and "" are falsy
Truthy(s) == s # Undefined /\ s # <<>>

\* list?.length used as a condition (the lists of a UFCEvent are arrays)
HasLength(list) == Len(list) > 0

\* list.join("\n")
RECURSIVE Join(_)
Join(list) ==
    IF Len(list) = 0 THEN <<>>
    ELSE IF Len(list) = 1 THEN <<list[1]>>
    ELSE <<list[1], "\n">> \o Join(Tail(list))

-----------------------------------------------------------------------------
(* Dates *)

\* year, month and day of the day `days` after 1970-01-01
CivilFromDays(days) ==
    LET z == days + 719468
        era == z \div 146097
        doe == z - era * 146097
        yoe == (doe - doe \div 1460 + doe \div 36524 - doe \div 146096) \div 365
        doy == doe - (365 * yoe + yoe \div 4 - yoe \div 100)
        mp == (5 * doy + 2) \div 153
        d == doy - (153 * mp + 2) \div 5 + 1
        m == IF mp < 10 THEN mp + 3 ELSE mp - 9
        y == yoe + era * 400 + (IF m <= 2 THEN 1 ELSE 0)
    IN  [year |-> y, month |-> m, day |-> d]

\* the fields of the instant ms in the zone `offset` minutes east of UTC
FieldsAt(ms, offset) ==
    LET mins == ms \div 60000 + offset
        c == CivilFromDays(mins \div 1440)
    IN  [year |-> c.year, month |-> c.month, day |-> c.day,
         hours |-> (mins % 1440) \div 60, minutes |-> mins % 60]

\* [getFullYear(), getMonth() + 1, getDate(), getHours(), getMinutes()] of
\* new Date(t); every getter of an invalid date is NaN
StartOf(t, offset) ==
    IF t.nan THEN <<NaN, NaN, NaN, NaN, NaN>>
    ELSE LET f == FieldsAt(t.num, offset)
         IN  <<Num(f.year), Num(f.month), Num(f.day), Num(f.hours), Num(f.minutes)>>

MonthShort ==
    <<"Jan", "Feb", "Mar", "Apr", "May", "Jun",
      "Jul", "Aug", "Sep", "Oct", "Nov", "Dec">>

\* America/Toronto at the instants of the model's clock (January 1970):
\* standard time, five hours west of UTC
TorontoOffset == -(5 * 60)

\* new Date().toLocaleString("en-US", {month: "short", day: "numeric",
\* hour: "numeric", minute: "numeric", timeZone: "America/Toronto",
\* timeZoneName: "short"}), e.g. "Jan 11, 5:00 AM EST"
Timestamp(ms) ==
    LET f == FieldsAt(ms, TorontoOffset)
        h == IF f.hours % 12 = 0 THEN 12 ELSE f.hours % 12
        mm == IF f.minutes < 10 THEN "0" \o ToString(f.minutes)
              ELSE ToString(f.minutes)
    IN  MonthShort[f.month] \o " " \o ToString(f.day) \o ", " \o ToString(h)
        \o ":" \o mm \o " " \o (IF f.hours < 12 THEN "AM" ELSE "PM") \o " EST"

-----------------------------------------------------------------------------
(* formatEventForCalendar *)

Separator == "--------------------"

\* a shorter fixed duration
Duration_TwoHours == [hours |-> 2]

\* const duration = { hours: 3 }
Duration == [hours |-> 3]

\* the alarms of the returned object
AlarmsOf(title) ==
    << [action |-> "display",
        description |-> title \o <<" starting soon!">>,
        trigger |-> [minutes |-> 30, before |-> TRUE]] >>

\* a suffix that is also appended when the section starts with the main card
HoursSuffix_AtOrBefore(date, time) ==
    IF Truthy(time)
    THEN LET sectionTime == NumTimes(ParseInt(time), 1000)
             hoursAgo == NumDiv(NumMinus(date, sectionTime), 3600000)
         IN  IF ~hoursAgo.nan /\ hoursAgo.num >= 0
             THEN <<" (", NumToString(hoursAgo), " hrs before Main)">>
             ELSE <<>>
    ELSE <<>>

\* what lines 77-81 (and 86-92) append to a section header: date is the
\* main card's instant in milliseconds, time the section's time field
HoursSuffix(date, time) ==
    IF Truthy(time)
    THEN LET sectionTime == NumTimes(ParseInt(time), 1000)
             hoursAgo == NumDiv(NumMinus(date, sectionTime), 3600000)
         IN  IF NumPositive(hoursAgo)
             THEN <<" (", NumToString(hoursAgo), " hrs before Main)">>
             ELSE <<>>
    ELSE <<>>

FightCardSection(event) ==
    IF HasLength(event.fightCard)
    THEN Join(event.fightCard) \o <<"\n">>
    ELSE <<>>

MainCardSection(event) ==
    IF HasLength(event.mainCard)
    THEN <<"Main Card", "\n", Separator, "\n">> \o Join(event.mainCard) \o <<"\n">>
    ELSE <<>>

PrelimsSection(event, date) ==
    IF HasLength(event.prelims)
    THEN <<"\n", "Prelims">> \o HoursSuffix(date, event.prelimsTime)
         \o <<"\n", Separator, "\n">> \o Join(event.prelims) \o <<"\n">>
    ELSE <<>>

EarlyPrelimsSection(event, date) ==
    IF HasLength(event.earlyPrelims)
    THEN <<"\n", "Early Prelims">> \o HoursSuffix(date, event.earlyPrelimsTime)
         \o <<"\n", Separator, "\n">> \o Join(event.earlyPrelims) \o <<"\n">>
    ELSE <<>>

\* a description with the prelims ahead of the main card
DescriptionOf_PrelimsFirst(event, date, clock) ==
    FightCardSection(event) \o PrelimsSection(event, date)
    \o MainCardSection(event) \o EarlyPrelimsSection(event, date)
    \o <<"\n", event.url.href, "\n">>
    \o <<"\n", "Accurate as of ", Timestamp(clock)>>

\* let description, from its initialisation to its last +=
DescriptionOf(event, date, clock) ==
    LET d0 == <<>>
        d1 == d0 \o FightCardSection(event)
        d2 == d1 \o MainCardSection(event)
        d3 == d2 \o PrelimsSection(event, date)
        d4 == d3 \o EarlyPrelimsSection(event, date)
        d5 == d4 \o <<"\n", event.url.href, "\n">>
    IN  d5 \o <<"\n", "Accurate as of ", Timestamp(clock)>>

\* event.url.href
UidOf(event) == event.url.href

\* the start array: the local fields of new Date(parseInt(event.date) * 1000)
StartFor(event, offset) ==
    StartOf(NumTimes(ParseInt(event.date), 1000), offset)

\* an entry whose start is taken from the clock instead of event.date
formatEventForCalendar_StartsNow(event, calName, clock, offset) ==
    [start |-> StartOf(Num(clock), offset),
     duration |-> Duration,
     title |-> event.name,
     description |->
         DescriptionOf(event, NumTimes(ParseInt(event.date), 1000), clock),
     location |-> event.location,
     uid |-> UidOf(event),
     calName |-> calName,
     alarms |-> AlarmsOf(event.name)]

\* formatEventForCalendar(event, calName), called at the instant clock in a
\* process whose local zone is offset minutes east of UTC
formatEventForCalendar(event, calName, clock, offset) ==
    LET date == NumTimes(ParseInt(event.date), 1000)
        title == event.name
    IN  [start |-> StartFor(event, offset),
         duration |-> Duration,
         title |-> title,
         description |-> DescriptionOf(event, date, clock),
         location |-> event.location,
         uid |-> UidOf(event),
         calName |-> calName,
         alarms |-> AlarmsOf(title)]

-----------------------------------------------------------------------------
(* The PPV filter: /UFC\s+\d+/.test(e.name) *)

\* \s+\d from position j, trying the shortest run of white space first
RECURSIVE SpacesThenDigit(_, _)
SpacesThenDigit(s, j) ==
    /\ j <= Len(s)
    /\ IsSpace(s[j])
    /\ \/ (j + 1 <= Len(s) /\ IsDigit(s[j + 1]))
       \/ SpacesThenDigit(s, j + 1)

MatchAt(s, i) ==
    /\ i + 2 <= Len(s)
    /\ s[i] = "U" /\ s[i + 1] = "F" /\ s[i + 2] = "C"
    /\ SpacesThenDigit(s, i + 3)

\* a filter that matches at the start of the name only
IsPayPerView_Anchored(e) == MatchAt(e.name, 1)

IsPayPerView(e) == \E i \in 1..Len(e.name) : MatchAt(e.name, i)

-----------------------------------------------------------------------------
(* Inputs *)

NameUfc300 == <<"U","F","C"," ","3","0","0">>
NameFightNight ==
    <<"U","F","C"," ","F","i","g","h","t"," ","N","i","g","h","t"," ","5","0">>
NameUfc1 == <<"U","F","C"," ","1">>
NameContender ==
    <<"C","o","n","t","e","n","d","e","r"," ","S","e","r","i","e","s">>
NameTabbed == <<"x","U","F","C","\t"," ","1","2","!">>
NameNoSpace == <<"U","F","C","3","0","0">>

Names ==
    {NameUfc300, NameFightNight, NameUfc1, NameContender, NameTabbed, NameNoSpace}

DateMain == <<"9","0","0","0","0","0">>        \* the main card's start
DateTwoHoursBefore == <<"8","9","2","8","0","0">>
DateNinetyMinBefore == <<"8","9","4","6","0","0">>
DateOneHourAfter == <<"9","0","3","6","0","0">>
DateUnparsable == <<"T","B","D">>

Bouts == <<"A vs B", "C vs D">>

Url(n) == [href |-> "https://example.com/e" \o ToString(n)]

\* the events of a list the acquisition returns: one per name, each with
\* its own url
PoolEvent(name, n) ==
    [name |-> name, date |-> DateMain, location |-> "Las Vegas",
     url |-> Url(n),
     fightCard |-> <<>>, mainCard |-> Bouts,
     prelims |-> (IF n % 2 = 0 THEN <<"E vs F">> ELSE <<>>),
     earlyPrelims |-> <<>>,
     prelimsTime |-> DateTwoHoursBefore, earlyPrelimsTime |-> Undefined]

EventPool ==
    {PoolEvent(NameUfc300, 1), PoolEvent(NameFightNight, 2),
     PoolEvent(NameUfc1, 3), PoolEvent(NameContender, 4),
     PoolEvent(NameTabbed, 5), PoolEvent(NameNoSpace, 6)}

EventLists == UNION {[1..n -> EventPool] : n \in 0..MaxEvents}

\* the events formatEventForCalendar is applied to on its own
FormatEvents ==
    [name : {NameUfc300, NameFightNight},
     date : {DateMain, DateUnparsable},
     location : {"Las Vegas"},
     url : {Url(1)},
     fightCard : {<<>>, Bouts},
     mainCard : {<<>>, <<"G vs H">>},
     prelims : {<<>>, <<"E vs F", "I vs J">>},
     earlyPrelims : {<<>>, <<"K vs L">>},
     prelimsTime : {Undefined, <<>>, DateTwoHoursBefore, DateNinetyMinBefore,
                    DateMain, DateOneHourAfter, DateUnparsable},
     earlyPrelimsTime : {Undefined, DateTwoHoursBefore, DateOneHourAfter}]

CalNames == {"UFC", "UFC-PPV"}

TzOffsets == {-(5 * 60), 60}

ClockStart == 900000 * 1000

ClockStep == 45 * 1000

FileNames == {"UFC.ics", "UFC-PPV.ics"}

NoFile == [kind |-> "none", entries |-> <<>>]

\* what an earlier run left behind
StaleFile == [kind |-> "stale", entries |-> <<>>]

\* what a write that threw may leave behind
PartialFile == [kind |-> "partial", entries |-> <<>>]

\* the document createEvents returns for a list of entries
Ics(entries) == [kind |-> "ics", entries |-> entries]

NoEvent == PoolEvent(NameContender, 0)

-----------------------------------------------------------------------------
(* createICS *)

Init ==
    /\ pc = "fetch"
    /\ events = <<>>
    /\ exitCode = 0
    /\ files \in [FileNames -> {NoFile, StaleFile}]
    /\ serialized = <<>>
    /\ trace = <<>>
    /\ now = ClockStart
    /\ tz \in TzOffsets
    /\ ev = NoEvent
    /\ cal = "UFC"
    /\ out = <<>>

Step(op, result) == [op |-> op, result |-> result]

\* a catch block that logs and leaves the exit status alone
Catch_NoExitCode ==
    /\ exitCode' = exitCode
    /\ pc' = "done"

\* the catch block, lines 45-48
Catch ==
    /\ exitCode' = 1
    /\ pc' = "done"

\* events.map((event) => formatEventForCalendar(event, calName))
MapFormat(list, calName) ==
    [i \in 1..Len(list) |-> formatEventForCalendar(list[i], calName, now, tz)]

\* line 13: getAllDetailedEvents() rejects
FetchThrows ==
    /\ pc = "fetch"
    /\ trace' = Append(trace, Step("fetch", "threw"))
    /\ Catch
    /\ UNCHANGED <<events, files, serialized, now, ev, cal, tz, out>>

\* what getAllDetailedEvents() resolves to: undefined, or a list
FetchResults ==
    {[defined |-> FALSE, list |-> <<>>]}
    \cup {[defined |-> TRUE, list |-> l] : l \in EventLists}

\* what the trace records of a fetch that returned
Returned(result) ==
    IF ~result.defined THEN "absent"
    ELSE IF result.list = <<>> THEN "empty" ELSE "ok"

\* a test that lets an empty list through
NoEvents_AbsentOnly(result) == ~result.defined

\* !events?.length, line 14
NoEvents(result) == ~result.defined \/ Len(result.list) = 0

\* lines 13-16: the acquisition returns undefined or a list
FetchReturns ==
    /\ pc = "fetch"
    /\ \E result \in FetchResults :
         IF NoEvents(result)
         THEN /\ trace' = Append(trace, Step("fetch", Returned(result)))
              /\ Catch
              /\ UNCHANGED events
         ELSE /\ trace' = Append(trace, Step("fetch", Returned(result)))
              /\ events' = result.list
              /\ pc' = "serializeAll"
              /\ UNCHANGED exitCode
    /\ UNCHANGED <<files, serialized, now, ev, cal, tz, out>>

\* lines 19-24 with createEvents reporting an error
SerializeAllError ==
    /\ pc = "serializeAll"
    /\ serialized' = Append(serialized, MapFormat(events, "UFC"))
    /\ trace' = Append(trace, Step("serialize UFC", "error"))
    /\ Catch
    /\ UNCHANGED <<events, files, now, ev, cal, tz, out>>

\* a run that goes on to the PPV feed without writing UFC.ics
SerializeAllOk_SkipsWrite ==
    /\ pc = "serializeAll"
    /\ serialized' = Append(serialized, MapFormat(events, "UFC"))
    /\ trace' = Append(trace, Step("serialize UFC", "ok"))
    /\ pc' = "serializePPV"
    /\ UNCHANGED <<events, files, exitCode, now, ev, cal, tz, out>>

\* lines 19-24 with createEvents returning a document
SerializeAllOk ==
    /\ pc = "serializeAll"
    /\ serialized' = Append(serialized, MapFormat(events, "UFC"))
    /\ trace' = Append(trace, Step("serialize UFC", "ok"))
    /\ pc' = "writeAll"
    /\ UNCHANGED <<events, files, exitCode, now, ev, cal, tz, out>>

\* a failed write of UFC.ics that does not end the run
WriteAllThrows_Swallowed ==
    /\ pc = "writeAll"
    /\ \E left \in {files["UFC.ics"], PartialFile} :
         files' = [files EXCEPT !["UFC.ics"] = left]
    /\ trace' = Append(trace, Step("write UFC.ics", "threw"))
    /\ exitCode' = 1
    /\ pc' = "serializePPV"
    /\ UNCHANGED <<events, serialized, now, ev, cal, tz, out>>

\* line 28 throwing: the file is as it was, or cut short
WriteAllThrows ==
    /\ pc = "writeAll"
    /\ \E left \in {files["UFC.ics"], PartialFile} :
         files' = [files EXCEPT !["UFC.ics"] = left]
    /\ trace' = Append(trace, Step("write UFC.ics", "threw"))
    /\ Catch
    /\ UNCHANGED <<events, serialized, now, ev, cal, tz, out>>

\* lines 26-29
WriteAllOk ==
    /\ pc = "writeAll"
    /\ files' = [files EXCEPT !["UFC.ics"] = Ics(serialized[1])]
    /\ trace' = Append(trace, Step("write UFC.ics", "ok"))
    /\ pc' = "serializePPV"
    /\ UNCHANGED <<events, serialized, exitCode, now, ev, cal, tz, out>>

\* events.filter((e) => /UFC\s+\d+/.test(e.name)), line 32
PpvEvents(list) == SelectSeq(list, IsPayPerView)

\* a PPV serialization error that is not thrown
SerializePPVError_Ignored ==
    /\ pc = "serializePPV"
    /\ serialized' = Append(serialized, MapFormat(PpvEvents(events), "UFC-PPV"))
    /\ trace' = Append(trace, Step("serialize UFC-PPV", "error"))
    /\ pc' = "writePPV"
    /\ UNCHANGED <<events, files, exitCode, now, ev, cal, tz, out>>

\* lines 32-38 with createEvents reporting an error
SerializePPVError ==
    /\ pc = "serializePPV"
    /\ serialized' = Append(serialized, MapFormat(PpvEvents(events), "UFC-PPV"))
    /\ trace' = Append(trace, Step("serialize UFC-PPV", "error"))
    /\ Catch
    /\ UNCHANGED <<events, files, now, ev, cal, tz, out>>

\* lines 32-38 with createEvents returning a document
SerializePPVOk ==
    /\ pc = "serializePPV"
    /\ serialized' = Append(serialized, MapFormat(PpvEvents(events), "UFC-PPV"))
    /\ trace' = Append(trace, Step("serialize UFC-PPV", "ok"))
    /\ pc' = "writePPV"
    /\ UNCHANGED <<events, files, exitCode, now, ev, cal, tz, out>>

\* line 41 throwing
WritePPVThrows ==
    /\ pc = "writePPV"
    /\ \E left \in {files["UFC-PPV.ics"], PartialFile} :
         files' = [files EXCEPT !["UFC-PPV.ics"] = left]
    /\ trace' = Append(trace, Step("write UFC-PPV.ics", "threw"))
    /\ Catch
    /\ UNCHANGED <<events, serialized, now, ev, cal, tz, out>>

\* lines 40-44: the run completes
WritePPVOk ==
    /\ pc = "writePPV"
    /\ files' = [files EXCEPT !["UFC-PPV.ics"] = Ics(serialized[2])]
    /\ trace' = Append(trace, Step("write UFC-PPV.ics", "ok"))
    /\ pc' = "done"
    /\ UNCHANGED <<events, serialized, exitCode, now, ev, cal, tz, out>>

\* the wall clock advances while the run is under way
Tick ==
    /\ pc # "done"
    /\ now < ClockStart + MaxTicks * ClockStep
    /\ now' = now + ClockStep
    /\ UNCHANGED <<pc, events, exitCode, files, serialized, trace, ev, cal, tz, out>>

Next ==
    \/ FetchThrows \/ FetchReturns
    \/ SerializeAllError \/ SerializeAllOk
    \/ WriteAllThrows \/ WriteAllOk
    \/ SerializePPVError \/ SerializePPVOk
    \/ WritePPVThrows \/ WritePPVOk
    \/ Tick

Spec == Init /\ [][Next]_vars

-----------------------------------------------------------------------------
(* formatEventForCalendar applied to one event, once or more *)

InitFormat ==
    /\ pc = "format"
    /\ events = <<>>
    /\ exitCode = 0
    /\ files = [f \in FileNames |-> NoFile]
    /\ serialized = <<>>
    /\ trace = <<>>
    /\ now = ClockStart
    /\ tz \in TzOffsets
    /\ ev \in FormatEvents
    /\ cal \in CalNames
    /\ out = <<>>

Call ==
    /\ pc = "format"
    /\ Len(out) < MaxCalls
    /\ out' = Append(out, [at |-> now, entry |-> formatEventForCalendar(ev, cal, now, tz)])
    /\ UNCHANGED <<pc, events, exitCode, files, serialized, trace, now, ev, cal, tz>>

NextFormat == Call \/ Tick

SpecFormat == InitFormat /\ [][NextFormat]_vars

-----------------------------------------------------------------------------
(* Vocabulary of the properties of createICS *)

Did(op, result) == \E i \in 1..Len(trace) : trace[i] = Step(op, result)

Attempted(op) == \E i \in 1..Len(trace) : trace[i].op = op

\* no write of this run has touched the file
Untouched(f) == files[f].kind \in {"none", "stale"}

AcquisitionFailed ==
    Did("fetch", "threw") \/ Did("fetch", "absent") \/ Did("fetch", "empty")

FullFeedFailed == Did("serialize UFC", "error") \/ Did("write UFC.ics", "threw")

PpvFeedFailed ==
    Did("serialize UFC-PPV", "error") \/ Did("write UFC-PPV.ics", "threw")

StepOrder ==
    <<"fetch", "serialize UFC", "write UFC.ics",
      "serialize UFC-PPV", "write UFC-PPV.ics">>

\* C1: when the acquisition throws or returns an empty or absent list, the
\* run is over with exit status 1, the serializer was never called and
\* neither file was written.
C1_AcquisitionFailureIsFatal ==
    AcquisitionFailed =>
        /\ pc = "done"
        /\ exitCode = 1
        /\ serialized = <<>>
        /\ Len(trace) = 1
        /\ \A f \in FileNames : Untouched(f)

C1_Witness == pc = "done" /\ Did("fetch", "empty") /\ exitCode = 1

\* C3: at the end of a run the exit status is non-zero exactly if the
\* acquisition threw or returned nothing, a serialization reported an error
\* or a write threw.
C3_ExitStatus ==
    pc = "done" =>
        (exitCode # 0 <=> (AcquisitionFailed \/ FullFeedFailed \/ PpvFeedFailed))

C3_Witness ==
    /\ pc = "done"
    /\ Did("write UFC-PPV.ics", "threw")
    /\ exitCode = 1

\* C4: a feed whose serialization reported an error has no file written in
\* that run, and the run's exit status is failure.
C4_SerializationErrorWritesNothing ==
    /\ Did("serialize UFC", "error") =>
           /\ ~Attempted("write UFC.ics")
           /\ Untouched("UFC.ics")
           /\ exitCode = 1
    /\ Did("serialize UFC-PPV", "error") =>
           /\ ~Attempted("write UFC-PPV.ics")
           /\ Untouched("UFC-PPV.ics")
           /\ exitCode = 1

C4_Witness ==
    /\ pc = "done"
    /\ Did("serialize UFC-PPV", "error")
    /\ files["UFC.ics"].kind = "ics"

\* C9: when the full feed fails (its serialization reports an error or the
\* write of UFC.ics throws) the run is over: the serializer is not called
\* for the PPV list and UFC-PPV.ics is not written.
C9_FullFeedFailureAborts ==
    FullFeedFailed =>
        /\ pc = "done"
        /\ Len(serialized) = 1
        /\ ~Attempted("serialize UFC-PPV")
        /\ ~Attempted("write UFC-PPV.ics")
        /\ Untouched("UFC-PPV.ics")

C9_Witness == pc = "done" /\ Did("write UFC.ics", "threw")

\* C10: the steps of a run are a prefix of fetch, serialize full, write
\* UFC.ics, serialize PPV, write UFC-PPV.ics, only the last of them may have
\* failed, UFC-PPV.ics is written only after UFC.ics, and a PPV failure
\* leaves the written UFC.ics in place with exit status 1.
C10_StepOrder ==
    /\ Len(trace) <= Len(StepOrder)
    /\ \A i \in 1..Len(trace) : trace[i].op = StepOrder[i]
    /\ \A i \in 1..(Len(trace) - 1) : trace[i].result = "ok"
    /\ Len(serialized) <= 2
    /\ Did("write UFC-PPV.ics", "ok") => Did("write UFC.ics", "ok")
    /\ files["UFC-PPV.ics"].kind = "ics" => files["UFC.ics"].kind = "ics"
    /\ Did("write UFC.ics", "ok") => files["UFC.ics"] = Ics(serialized[1])
    /\ Did("write UFC-PPV.ics", "ok") => files["UFC-PPV.ics"] = Ics(serialized[2])
    /\ PpvFeedFailed =>
           /\ pc = "done"
           /\ files["UFC.ics"] = Ics(serialized[1])
           /\ exitCode = 1

C10_Witness ==
    /\ pc = "done"
    /\ Did("write UFC-PPV.ics", "threw")
    /\ files["UFC.ics"].kind = "ics"
    /\ files["UFC-PPV.ics"].kind = "partial"

\* the name holds UFC, one or more white space characters and a digit,
\* somewhere
NameMatches(name) ==
    \E i \in 1..Len(name) : \E j \in (i + 4)..Len(name) :
        /\ <<name[i], name[i + 1], name[i + 2]>> = <<"U", "F", "C">>
        /\ \A k \in (i + 3)..(j - 1) : IsSpace(name[k])
        /\ IsDigit(name[j])

\* the entry stands for the event in the calendar calName
EntryOf(entry, event, calName) ==
    /\ entry.uid = event.url.href
    /\ entry.title = event.name
    /\ entry.location = event.location
    /\ entry.calName = calName

\* C2: the list handed to the serializer for the full feed has one entry
\* per event, in order, with calName "UFC"; the list handed over for the PPV
\* feed has the entries of exactly the events whose name matches, in order,
\* with calName "UFC-PPV".
C2_FeedContents ==
    /\ Len(serialized) >= 1 =>
           /\ events # <<>>
           /\ Len(serialized[1]) = Len(events)
           /\ \A i \in 1..Len(events) : EntryOf(serialized[1][i], events[i], "UFC")
    /\ Len(serialized) >= 2 =>
           LET ppv == serialized[2]
               matching == {i \in 1..Len(events) : NameMatches(events[i].name)}
           IN  \E f \in [1..Len(ppv) -> 1..Len(events)] :
                   /\ \A k \in 1..Len(ppv) : \A l \in 1..Len(ppv) :
                          k < l => f[k] < f[l]
                   /\ {f[k] : k \in 1..Len(ppv)} = matching
                   /\ \A k \in 1..Len(ppv) : EntryOf(ppv[k], events[f[k]], "UFC-PPV")
    /\ \A i \in 1..Len(events) :
           /\ events[i].name = NameUfc300 /\ Len(serialized) >= 2 =>
                  \E k \in 1..Len(serialized[2]) :
                      EntryOf(serialized[2][k], events[i], "UFC-PPV")
           /\ events[i].name = NameFightNight /\ Len(serialized) >= 2 =>
                  \A k \in 1..Len(serialized[2]) :
                      serialized[2][k].uid # events[i].url.href

C2_Witness ==
    /\ Len(serialized) = 2
    /\ Len(events) = 2
    /\ events[1].name = NameFightNight
    /\ events[2].name = NameUfc300
    /\ Len(serialized[2]) = 1

-----------------------------------------------------------------------------
(* Vocabulary of the properties of formatEventForCalendar *)

\* the entries of a list, one per line
Lines(list) ==
    [i \in 1..(2 * Len(list) - 1) |->
        IF i % 2 = 1 THEN list[(i + 1) \div 2] ELSE "\n"]

\* the " (<hours> hrs before Main)" pieces found in d, and none
SuffixesIn(d) ==
    {<<>>} \cup
    {SubSeq(d, i, i + 2) : i \in {j \in 1..(Len(d) - 2) :
        d[j] = " (" /\ d[j + 2] = " hrs before Main)"}}

HeadedSection(header, list, suffix) ==
    IF list = <<>> THEN <<>>
    ELSE <<"\n", header>> \o suffix \o <<"\n", Separator, "\n">>
         \o Lines(list) \o <<"\n">>

Holds(d, piece) == \E i \in 1..Len(d) : d[i] = piece

\* C5: a description is the fight card lines, the Main Card section, the
\* Prelims section, the Early Prelims section, the url and the footer, in
\* this order; a card section is there exactly if its list is not empty, the
\* url and the footer always; the fight card lines precede any Main Card
\* header.
C5_DescriptionOrder ==
    \A k \in 1..Len(out) :
        LET d == out[k].entry.description
            fight == IF ev.fightCard = <<>> THEN <<>>
                     ELSE Lines(ev.fightCard) \o <<"\n">>
            main == IF ev.mainCard = <<>> THEN <<>>
                    ELSE <<"Main Card", "\n", Separator, "\n">>
                         \o Lines(ev.mainCard) \o <<"\n">>
        IN  /\ \E sp \in SuffixesIn(d) : \E se \in SuffixesIn(d) :
                   d = fight \o main
                       \o HeadedSection("Prelims", ev.prelims, sp)
                       \o HeadedSection("Early Prelims", ev.earlyPrelims, se)
                       \o <<"\n", ev.url.href, "\n">>
                       \o <<"\n", "Accurate as of ", d[Len(d)]>>
            /\ Holds(d, "Main Card") <=> ev.mainCard # <<>>
            /\ Holds(d, "Prelims") <=> ev.prelims # <<>>
            /\ Holds(d, "Early Prelims") <=> ev.earlyPrelims # <<>>
            /\ ev.fightCard # <<>> =>
                   /\ SubSeq(d, 1, Len(fight)) = fight
                   /\ \A i \in 1..Len(d) : d[i] = "Main Card" => i > Len(fight)
            /\ Holds(d, ev.url.href)
            /\ d[Len(d) - 1] = "Accurate as of "

C5_Witness ==
    /\ Len(out) >= 1
    /\ ev.fightCard # <<>> /\ ev.mainCard # <<>>
    /\ ev.prelims # <<>> /\ ev.earlyPrelims # <<>>
    /\ Holds(out[1].entry.description, "Main Card")

\* a string of decimal digits
IsDecimal(s) == s # Undefined /\ Len(s) > 0 /\ \A i \in 1..Len(s) : IsDigit(s[i])

RECURSIVE DecimalValue(_)
DecimalValue(s) ==
    IF Len(s) = 0 THEN 0
    ELSE 10 * DecimalValue(SubSeq(s, 1, Len(s) - 1)) + DigitVal(s[Len(s)])

\* seconds as hours, not rounded
HoursText(seconds) ==
    IF seconds % 3600 = 0 THEN ToString(seconds \div 3600)
    ELSE LET g == Gcd(seconds, 3600)
         IN  ToString(seconds \div g) \o "/" \o ToString(3600 \div g)

\* the header is followed by a " (<hours> hrs before Main)" suffix
SuffixAttached(d, header) ==
    \E i \in 1..(Len(d) - 3) :
        d[i] = header /\ d[i + 1] = " (" /\ d[i + 3] = " hrs before Main)"

Earlier(time, date) ==
    IsDecimal(time) /\ IsDecimal(date) /\ DecimalValue(time) < DecimalValue(date)

NotEarlier(time, date) ==
    \/ time = Undefined
    \/ IsDecimal(time) /\ IsDecimal(date) /\ DecimalValue(time) >= DecimalValue(date)

\* C6 as stated: a section time that is present and less than date puts the
\* suffix on the section's header; one that is absent, equal or greater
\* does not.
C6_AsStated ==
    \A k \in 1..Len(out) :
        LET d == out[k].entry.description
        IN  /\ Earlier(ev.prelimsTime, ev.date) => SuffixAttached(d, "Prelims")
            /\ NotEarlier(ev.prelimsTime, ev.date) => ~SuffixAttached(d, "Prelims")
            /\ Earlier(ev.earlyPrelimsTime, ev.date) =>
                   SuffixAttached(d, "Early Prelims")
            /\ NotEarlier(ev.earlyPrelimsTime, ev.date) =>
                   ~SuffixAttached(d, "Early Prelims")

\* the rule of C6 for one section with a header in the description
SuffixRule(d, header, list, time) ==
    /\ list # <<>> /\ Earlier(time, ev.date) =>
           \E i \in 1..(Len(d) - 3) :
               /\ d[i] = header /\ d[i + 1] = " ("
               /\ d[i + 2] = HoursText(DecimalValue(ev.date) - DecimalValue(time))
               /\ d[i + 3] = " hrs before Main)"
    /\ list = <<>> \/ NotEarlier(time, ev.date) => ~SuffixAttached(d, header)

\* C6, amended: for a section whose list is not empty, a section time that
\* is present and less than date puts " (<hours> hrs before Main)" on the
\* section's header; if the list is empty, or the time is absent, equal to
\* date or greater, the header has no such suffix.
C6_SuffixWhenSectionPresent ==
    \A k \in 1..Len(out) :
        LET d == out[k].entry.description
        IN  /\ SuffixRule(d, "Prelims", ev.prelims, ev.prelimsTime)
            /\ SuffixRule(d, "Early Prelims", ev.earlyPrelims, ev.earlyPrelimsTime)

C6_Witness ==
    /\ Len(out) >= 1
    /\ ev.prelims # <<>>
    /\ ev.date = DateMain
    /\ ev.prelimsTime = DateNinetyMinBefore
    /\ SuffixAttached(out[1].entry.description, "Prelims")
    /\ Holds(out[1].entry.description, "3/2")

\* C7: every entry lasts three hours and has one alarm, a display reminder
\* 30 minutes before the start that reads "<title> starting soon!", the
\* title being the event's name.
C7_DurationAndAlarm ==
    \A k \in 1..Len(out) :
        LET e == out[k].entry
        IN  /\ e.duration = [hours |-> 3]
            /\ e.title = ev.name
            /\ Len(e.alarms) = 1
            /\ e.alarms[1].action = "display"
            /\ e.alarms[1].trigger = [minutes |-> 30, before |-> TRUE]
            /\ e.alarms[1].description = ev.name \o <<" starting soon!">>

C7_Witness ==
    /\ Len(out) >= 1
    /\ cal = "UFC-PPV"
    /\ out[1].entry.calName = "UFC-PPV"
    /\ Len(out[1].entry.alarms) = 1

\* C8: an entry's uid is the event's url, and entries made of the same
\* event at different times agree on uid, title, start, duration and
\* location, their descriptions differing in the closing timestamp at most.
C8_StableAcrossRuns ==
    /\ \A k \in 1..Len(out) : out[k].entry.uid = ev.url.href
    /\ \A k \in 1..Len(out) : \A l \in 1..Len(out) :
           LET a == out[k].entry
               b == out[l].entry
           IN  /\ a.uid = b.uid
               /\ a.title = b.title
               /\ a.start = b.start
               /\ a.duration = b.duration
               /\ a.location = b.location
               /\ Len(a.description) = Len(b.description)
               /\ SubSeq(a.description, 1, Len(a.description) - 1)
                      = SubSeq(b.description, 1, Len(b.description) - 1)

C8_Witness ==
    /\ Len(out) >= 2
    /\ out[1].at # out[2].at
    /\ out[1].entry.description # out[2].entry.description
    /\ out[1].entry.start = out[2].entry.start
    /\ ~out[1].entry.start[1].nan

====
